---- MODULE Spec2Model ----
(***************************************************************************)
(* A model of reg.py: Metadata.grid_dimensions, EdgeAligner (register,     *)
(* intersection, crop, overlap) and paste / crop_like.                     *)
(*                                                                         *)
(* Number representation (the source works on floating point arrays):      *)
(*   - tile positions are integers counting 1/Sub pixel;                   *)
(*   - tile sizes and overlap shapes are whole pixels;                     *)
(*   - registration shifts and errors count 1/UpsampleFactor (the sub-pixel*)
(*     precision register_translation is called with);                     *)
(*   - image intensities are fractions with an explicit denominator.       *)
(* Vectors are <<y, x>>, axes 1 and 2.                                     *)
(***************************************************************************)
EXTENDS Integers, FiniteSets, Sequences, TLC

VARIABLES
    positions,  \* Metadata.positions: tile index -> <<y, x>>, in 1/Sub pixel
    size,       \* Metadata.size: <<height, width>> in pixels
    cache,      \* EdgeAligner._cache: sorted pair -> [shift, error]
    reads,      \* number of Reader.read calls made so far
    corr,       \* what register_translation returned, by ordered pair of images
    returned,   \* history: ordered pair -> set of results register returned
    ret,        \* the most recent register call and its outcome
    isect,      \* the most recent intersection call and its outcome
    grid,       \* the most recent grid_dimensions evaluation
    canvas,     \* paste's target array: <<row, col>> -> unsigned integer
    pasted,     \* history: the set of <<img, pos>> pasted successfully
    last        \* the most recent paste call and its outcome

vars == <<positions, size, cache, reads, corr, returned, ret, isect, grid,
          canvas, pasted, last>>

----------------------------------------------------------------------------
(* Bounds of the model *)

\* positions are multiples of 1/Sub pixel
Sub == 2
\* geometry: tile coordinates range over -MaxCoord..MaxCoord (in 1/Sub pixel)
MaxCoord == 2
\* geometry: tile height and width range over 1..MaxSize pixels
MaxSize == 2
\* registration: number of tiles of the aligner's metadata
NumTiles == 3
\* grid: at most MaxGridTiles tiles, coordinates in 0..MaxGridCoord
MaxGridTiles == 4
MaxGridCoord == 1
\* paste: the canvas is CanvasH x CanvasW pixels of CanvasBits bits, the
\* pasted images ImgH x ImgW pixels with intensities in 0/FDen..FDen/FDen,
\* and a run makes at most MaxPastes calls
CanvasH == 2
CanvasW == 3
CanvasBits == 16
ImgH == 2
ImgW == 2
FDen == 4
MaxPastes == 3

----------------------------------------------------------------------------
(* Program constants *)

\* self.max_shift = 0.05, as the fraction MaxShiftNum / MaxShiftDen
MaxShiftNum == 5
MaxShiftDen == 100
\* upsample_factor passed to register_translation: shifts are multiples of 1/10
UpsampleFactor == 10
\* the brightening of the debug outline
DebugIncrement == 6000

----------------------------------------------------------------------------
(* Small vector arithmetic (numpy broadcasting on 2-element arrays) *)

Axes == 1..2
Abs(n) == IF n < 0 THEN -n ELSE n
Min(a, b) == IF a < b THEN a ELSE b
Max(a, b) == IF a > b THEN a ELSE b
VecSub(u, v) == [d \in Axes |-> u[d] - v[d]]
Neg(v) == [d \in Axes |-> -v[d]]
\* np.ceil of n / Sub
Ceil(n) == -((-n) \div Sub)
EmptyFn == [k \in {} |-> 0]

Tiles == DOMAIN positions

----------------------------------------------------------------------------
(* EdgeAligner.intersection *)

\* corners1 = positions[[t1, t2]]
Corners1(t1, t2) == <<positions[t1], positions[t2]>>
\* corners2 = corners1 + size
Corners2(t1, t2) ==
    [i \in 1..2 |-> [d \in Axes |-> Corners1(t1, t2)[i][d] + size[d] * Sub]]
\* position = corners1.max(axis=0)
IsectPosition(t1, t2) ==
    [d \in Axes |-> Max(Corners1(t1, t2)[1][d], Corners1(t1, t2)[2][d])]
ShapeFloor(t1, t2) ==
    [d \in Axes |->
        (Min(Corners2(t1, t2)[1][d], Corners2(t1, t2)[2][d])
            - IsectPosition(t1, t2)[d]) \div Sub]
\* shape = np.ceil(corners2.min(axis=0) - position).astype(int)
IsectShape(t1, t2) ==
    [d \in Axes |->
        Ceil(Min(Corners2(t1, t2)[1][d], Corners2(t1, t2)[2][d])
                - IsectPosition(t1, t2)[d])]
OffsetsFlipped(t1, t2) ==
    [i \in 1..2 |-> VecSub(IsectPosition(t1, t2), Corners1(t1, t2)[i])]
\* offset1, offset2 = corners1 - position
IsectOffsets(t1, t2) ==
    [i \in 1..2 |-> VecSub(Corners1(t1, t2)[i], IsectPosition(t1, t2))]
NeverDisjoint(t1, t2) == FALSE
\* if any(shape <= 0)
IsectDisjoint(t1, t2) == \E d \in Axes : IsectShape(t1, t2)[d] <= 0

intersection(t1, t2) ==
    IF IsectDisjoint(t1, t2)
    THEN [ok |-> FALSE, error |-> "Tiles do not intersect"]
    ELSE [ok |-> TRUE,
          offset1 |-> IsectOffsets(t1, t2)[1],
          offset2 |-> IsectOffsets(t1, t2)[2],
          shape |-> IsectShape(t1, t2)]

----------------------------------------------------------------------------
(* EdgeAligner.register *)

UnsortedKey(t1, t2) == <<t1, t2>>
\* key = tuple(sorted((t1, t2)))
SortedKey(t1, t2) == IF t1 <= t2 THEN <<t1, t2>> ELSE <<t2, t1>>

\* 1 (the error of a rejected estimate), in 1/UpsampleFactor
RejectedError == 1 * UpsampleFactor

\* max_shift * size on axis d, rounded down to 1/UpsampleFactor
ShiftLimit(d) == (MaxShiftNum * size[d] * UpsampleFactor) \div MaxShiftDen

\* The estimates register_translation may produce for the whitened crops of
\* two tiles: one on the limit of both axes, one beyond it on the first axis
\* only, one beyond it on the second axis only.
\* shift, error, _ = register_translation(img1, img2, 10)
Estimates(t1, t2) ==
    { [shift |-> <<ShiftLimit(1), -ShiftLimit(2)>>, error |-> 0],
      [shift |-> <<ShiftLimit(1) + 1, 0>>, error |-> 3],
      [shift |-> <<-1, -(ShiftLimit(2) + 1)>>, error |-> 7] }

ClampAll(e) ==
    IF \A d \in Axes :
          Abs(e.shift[d]) * MaxShiftDen > MaxShiftNum * size[d] * UpsampleFactor
    THEN [shift |-> <<0, 0>>, error |-> RejectedError]
    ELSE e
\* if any(np.abs(shift) > self.max_shift * size): shift[:] = 0; error = 1
Clamp(e) ==
    IF \E d \in Axes :
          Abs(e.shift[d]) * MaxShiftDen > MaxShiftNum * size[d] * UpsampleFactor
    THEN [shift |-> <<0, 0>>, error |-> RejectedError]
    ELSE e

\* crop: one Reader.read of the tile's plane
crop(n) == n + 1
\* overlap: img1 = self.crop(t1, ...); img2 = self.crop(t2, ...)
overlap(n) == crop(crop(n))

NotOriented(t1, t2, shift) == shift
\* if t1 > t2: shift = -shift
Oriented(t1, t2, shift) == IF t1 > t2 THEN Neg(shift) ELSE shift

NoCall == [status |-> "none"]

Record(t1, t2, res) ==
    [returned EXCEPT ![<<t1, t2>>] = @ \cup {res}]

\* register(t1, t2) when self._cache[key] exists
RegisterHit(t1, t2) ==
    LET key == SortedKey(t1, t2)
        res == [shift |-> Oriented(t1, t2, cache[key].shift),
                error |-> cache[key].error]
    IN  /\ key \in DOMAIN cache
        /\ ret' = [status |-> "ok", t1 |-> t1, t2 |-> t2, miss |-> FALSE,
                   repeat |-> returned[<<t1, t2>>] # {},
                   shift |-> res.shift, error |-> res.error]
        /\ returned' = Record(t1, t2, res)
        /\ UNCHANGED <<cache, reads, corr>>
        /\ UNCHANGED <<positions, size, isect, grid, canvas, pasted, last>>

\* register(t1, t2) on KeyError, overlap() raising in intersection()
RegisterFail(t1, t2) ==
    /\ SortedKey(t1, t2) \notin DOMAIN cache
    /\ ~intersection(t1, t2).ok
    /\ ret' = [status |-> "error", t1 |-> t1, t2 |-> t2,
               error |-> intersection(t1, t2).error]
    /\ UNCHANGED <<cache, reads, corr, returned>>
    /\ UNCHANGED <<positions, size, isect, grid, canvas, pasted, last>>

\* register(t1, t2) on KeyError: overlap (two crops, one Reader.read each),
\* whiten, register_translation, the outlier test, the cache write
RegisterMiss(t1, t2) ==
    LET key == SortedKey(t1, t2)
    IN  /\ key \notin DOMAIN cache
        /\ intersection(t1, t2).ok
        /\ \E est \in Estimates(t1, t2) :
              LET c == Clamp(est)
                  res == [shift |-> Oriented(t1, t2, c.shift),
                          error |-> c.error]
              IN  /\ reads' = overlap(reads)
                  /\ corr' = (<<t1, t2>> :> est) @@ corr
                  /\ cache' = (key :> c) @@ cache
                  /\ ret' = [status |-> "ok", t1 |-> t1, t2 |-> t2,
                             miss |-> TRUE, est |-> est,
                             repeat |-> returned[<<t1, t2>>] # {},
                             shift |-> res.shift, error |-> res.error]
                  /\ returned' = Record(t1, t2, res)
        /\ UNCHANGED <<positions, size, isect, grid, canvas, pasted, last>>

\* Three or more tiles in a row, each overlapping the next one only.
RowLayout == [t \in 0..(NumTiles - 1) |-> <<t % 2, t * (2 * Sub + 1)>>]
RowSize == <<2, 4>>

InitReg ==
    /\ positions = RowLayout
    /\ size = RowSize
    /\ cache = EmptyFn
    /\ reads = 0
    /\ corr = EmptyFn
    /\ returned = [p \in (0..(NumTiles - 1)) \X (0..(NumTiles - 1)) |-> {}]
    /\ ret = NoCall
    /\ isect = NoCall
    /\ grid = NoCall
    /\ canvas = EmptyFn
    /\ pasted = {}
    /\ last = NoCall

\* register is called on pairs of two tiles, in either order
NextReg ==
    \/ \E t1 \in Tiles : \E t2 \in Tiles \ {t1} : RegisterHit(t1, t2)
    \/ \E t1 \in Tiles : \E t2 \in Tiles \ {t1} : RegisterFail(t1, t2)
    \/ \E t1 \in Tiles : \E t2 \in Tiles \ {t1} : RegisterMiss(t1, t2)

SpecReg == InitReg /\ [][NextReg]_vars

----------------------------------------------------------------------------
(* intersection evaluated on drawn positions and sizes *)

Intersect(t1, t2) ==
    /\ isect' = [status |-> "called", t1 |-> t1, t2 |-> t2,
                 res |-> intersection(t1, t2)]
    /\ UNCHANGED <<positions, size, cache, reads, corr, returned, ret, grid,
                   canvas, pasted, last>>

Coords == (-MaxCoord)..MaxCoord

InitGeom ==
    /\ positions \in [0..1 -> Coords \X Coords]
    /\ size \in (1..MaxSize) \X (1..MaxSize)
    /\ cache = EmptyFn
    /\ reads = 0
    /\ corr = EmptyFn
    /\ returned = EmptyFn
    /\ ret = NoCall
    /\ isect = NoCall
    /\ grid = NoCall
    /\ canvas = EmptyFn
    /\ pasted = {}
    /\ last = NoCall

NextGeom == \E t1 \in Tiles, t2 \in Tiles : Intersect(t1, t2)

SpecGeom == InitGeom /\ [][NextGeom]_vars

----------------------------------------------------------------------------
(* Metadata.grid_dimensions *)

\* self.num_images
NumImages == Cardinality(Tiles)

GridShapeSwapped ==
    [d \in Axes |-> Cardinality({positions[t][3 - d] : t \in Tiles})]
\* shape = np.array([len(set(pos[:, d])) for d in range(2)])
GridShape == [d \in Axes |-> Cardinality({positions[t][d] : t \in Tiles})]

grid_dimensions ==
    IF GridShape[1] * GridShape[2] # NumImages
    THEN [ok |-> FALSE, error |-> "Series positions do not form a grid"]
    ELSE [ok |-> TRUE, shape |-> GridShape]

GridDimensions ==
    /\ grid' = [status |-> "called", res |-> grid_dimensions]
    /\ UNCHANGED <<positions, size, cache, reads, corr, returned, ret, isect,
                   canvas, pasted, last>>

GridCoords == 0..MaxGridCoord

InitGrid ==
    /\ positions \in UNION { [0..(n - 1) -> GridCoords \X GridCoords] :
                                n \in 1..MaxGridTiles }
    /\ size = <<1, 1>>
    /\ cache = EmptyFn
    /\ reads = 0
    /\ corr = EmptyFn
    /\ returned = EmptyFn
    /\ ret = NoCall
    /\ isect = NoCall
    /\ grid = NoCall
    /\ canvas = EmptyFn
    /\ pasted = {}
    /\ last = NoCall

NextGrid == GridDimensions

SpecGrid == InitGrid /\ [][NextGrid]_vars

----------------------------------------------------------------------------
(* paste and crop_like *)

\* np.iinfo(target.dtype).max
CanvasMax == 2 ^ CanvasBits - 1
Pixels == (0..(CanvasH - 1)) \X (0..(CanvasW - 1))

\* The float images pasted: a checkerboard of 1.0 and 0.0, and a ramp.
Image(id) ==
    [p \in (0..(ImgH - 1)) \X (0..(ImgW - 1)) |->
        IF id = "A"
        THEN (IF (p[1] + p[2]) % 2 = 0 THEN FDen ELSE 0)
        ELSE ((p[1] * ImgW + p[2]) % FDen) + 1]
ImageIds == {"A", "B"}

\* pos_f, pos_i = np.modf(pos): the parts keep the sign of pos
IntPart(p) == IF p >= 0 THEN p \div Sub ELSE -((-p) \div Sub)
FracPart(p) == p - IntPart(p) * Sub

\* crop_like(img, target): the leading min(img, target) rows (columns)
crop_like(n, m) == IF n > m THEN m ELSE n

\* Lines 217-230 on one axis: the image of extent n at integer offset i on a
\* canvas of extent m. first: leading image rows dropped; at: where the
\* slice starts; len: the extent of the slice and of the cropped image.
ClipAxis(i, n, m) ==
    LET first == IF i < 0 THEN -i ELSE 0
        left == Max(0, n - first)
        at == IF i < 0 THEN 0 ELSE i
        len == Min(at + left, m) - Min(at, m)
    IN  [first |-> first, at |-> at, len |-> crop_like(left, len)]

Region(pos) ==
    [y |-> ClipAxis(IntPart(pos[1]), ImgH, CanvasH),
     x |-> ClipAxis(IntPart(pos[2]), ImgW, CanvasW)]

InSlice(reg, p) ==
    /\ reg.y.at <= p[1] /\ p[1] < reg.y.at + reg.y.len
    /\ reg.x.at <= p[2] /\ p[2] < reg.x.at + reg.x.len

\* the cropped image at local (i, j), 0.0 outside it (mode='constant')
Cropped(id, reg, i, j) ==
    IF 0 <= i /\ i < reg.y.len /\ 0 <= j /\ j < reg.x.len
    THEN Image(id)[<<reg.y.first + i, reg.x.first + j>>]
    ELSE 0

Sign(n) == IF n > 0 THEN 1 ELSE IF n < 0 THEN -1 ELSE 0

\* scipy.ndimage.shift(img, pos_f) at local (i, j), as a numerator over
\* FDen * Sub * Sub. The library's spline is represented by the two-point
\* interpolation between the pixel and its neighbour against the shift.
Shifted(id, reg, pos, i, j) ==
    LET fy == FracPart(pos[1])
        fx == FracPart(pos[2])
        ay == Abs(fy)
        ax == Abs(fx)
    IN    (Sub - ay) * (Sub - ax) * Cropped(id, reg, i, j)
        + ay * (Sub - ax) * Cropped(id, reg, i - Sign(fy), j)
        + (Sub - ay) * ax * Cropped(id, reg, i, j - Sign(fx))
        + ay * ax * Cropped(id, reg, i - Sign(fy), j - Sign(fx))

\* np.clip(img, 0, 1, img), on a numerator over den
Clip01(num, den) == Max(0, Min(num, den))

\* np.rint of a / b, a >= 0: to the nearest integer, halves to the even one
Rint(a, b) ==
    LET q == a \div b
        r == a % b
    IN  IF 2 * r < b THEN q
        ELSE IF 2 * r > b THEN q + 1
        ELSE IF q % 2 = 0 THEN q ELSE q + 1

\* skimage.util.dtype.convert(img, target.dtype), float to unsigned:
\* img * imax, rint, clip
Convert(num, den) == Max(0, Min(Rint(num * CanvasMax, den), CanvasMax))

\* the converted image at canvas pixel p of the slice
Contribution(id, pos, p) ==
    LET reg == Region(pos)
    IN  Convert(Clip01(Shifted(id, reg, pos, p[1] - reg.y.at, p[2] - reg.x.at),
                       FDen * Sub * Sub),
                FDen * Sub * Sub)

Overwrite(old, new) == new
\* np.maximum(target_slice, img)
Blend(old, new) == Max(old, new)

\* target_slice[:, :] = np.maximum(target_slice, img)
Blended(id, pos) ==
    [p \in Pixels |->
        IF InSlice(Region(pos), p)
        THEN Blend(canvas[p], Contribution(id, pos, p))
        ELSE canvas[p]]

\* target_slice[rows, cols] += 6000, in the canvas's unsigned type
AddOutline(c, reg, rows, cols) ==
    [p \in Pixels |->
        IF (p[1] - reg.y.at) \in rows /\ (p[2] - reg.x.at) \in cols
        THEN (c[p] + DebugIncrement) % (2 ^ CanvasBits)
        ELSE c[p]]

\* the four += of the debug branch; np.clip's result is dropped
Outlined(c, reg) ==
    LET h == reg.y.len
        w == reg.x.len
        c1 == AddOutline(c, reg, {0}, 0..(w - 1))
        c2 == AddOutline(c1, reg, {h - 1}, 0..(w - 1))
        c3 == AddOutline(c2, reg, 1..(h - 2), {0})
    IN  AddOutline(c3, reg, 1..(h - 2), {w - 1})

Calls == IF last.status = "none" THEN 0 ELSE last.n

PasteIdle ==
    UNCHANGED <<positions, size, cache, reads, corr, returned, ret, isect,
                grid>>

\* paste(target, img, pos, debug) with a slice that is not empty
PasteOk(id, pos, debug) ==
    LET reg == Region(pos)
        blended == Blended(id, pos)
    IN  /\ Calls < MaxPastes
        /\ reg.y.len > 0 /\ reg.x.len > 0
        /\ canvas' = IF debug THEN Outlined(blended, reg) ELSE blended
        /\ pasted' = pasted \cup {<<id, pos>>}
        /\ last' = [status |-> "ok", n |-> Calls + 1, img |-> id, pos |-> pos,
                    debug |-> debug, again |-> <<id, pos>> \in pasted,
                    region |-> reg, blended |-> blended]
        /\ PasteIdle

\* paste(target, img, pos, debug) with an empty slice: the conversion of an
\* empty image raises before the canvas is written
PasteEmpty(id, pos, debug) ==
    LET reg == Region(pos)
    IN  /\ Calls < MaxPastes
        /\ reg.y.len = 0 \/ reg.x.len = 0
        /\ last' = [status |-> "empty", n |-> Calls + 1, img |-> id,
                    pos |-> pos, debug |-> debug]
        /\ UNCHANGED <<canvas, pasted>>
        /\ PasteIdle

\* Positions (in 1/Sub pixel): on the canvas, clipped at the top with a
\* fraction, cropped at the right edge with a fraction, a negative fraction
\* that clips nothing, and below the canvas.
PastePositions ==
    { <<0, 0>>,
      <<-(Sub + 1), Sub - 1>>,
      <<1, (CanvasW - 1) * Sub - 1>>,
      <<-1, -1>>,
      <<CanvasH * Sub, 0>> }

InitPaste ==
    /\ positions = EmptyFn
    /\ size = <<ImgH, ImgW>>
    /\ cache = EmptyFn
    /\ reads = 0
    /\ corr = EmptyFn
    /\ returned = EmptyFn
    /\ ret = NoCall
    /\ isect = NoCall
    /\ grid = NoCall
    /\ canvas = [p \in Pixels |-> 0]
    /\ pasted = {}
    /\ last = NoCall

NextPaste ==
    \/ \E id \in ImageIds, pos \in PastePositions : PasteOk(id, pos, FALSE)
    \/ \E id \in ImageIds, pos \in PastePositions : PasteEmpty(id, pos, FALSE)

SpecPaste == InitPaste /\ [][NextPaste]_vars

NextPasteDebug ==
    \/ \E id \in ImageIds, pos \in PastePositions, debug \in BOOLEAN :
          PasteOk(id, pos, debug)
    \/ \E id \in ImageIds, pos \in PastePositions, debug \in BOOLEAN :
          PasteEmpty(id, pos, debug)

SpecPasteDebug == InitPaste /\ [][NextPasteDebug]_vars

----------------------------------------------------------------------------
(* Claims about EdgeAligner.register, checked under SpecReg *)

Result(r) == [shift |-> r.shift, error |-> r.error]

\* C1: whatever was called before, every result register(a, b) returned and
\* every result register(b, a) returned have shifts that are negations of
\* each other on both axes and the same error.
RegisterSymmetry ==
    \A a \in Tiles, b \in Tiles :
        \A r1 \in returned[<<a, b>>], r2 \in returned[<<b, a>>] :
            /\ \A d \in Axes : r1.shift[d] = -r2.shift[d]
            /\ r1.error = r2.error

\* both orders of a pair of different tiles were registered, one of them
\* with a shift that is not zero
RegisterSymmetryWitness ==
    \E a \in Tiles, b \in Tiles :
        /\ a # b
        /\ returned[<<b, a>>] # {}
        /\ \E r \in returned[<<a, b>>] : r.shift # <<0, 0>>

\* The correlation of (img_t1, img_t2), given the one register_translation
\* computed and that swapping the images negates the shift.
Correlation(t1, t2) ==
    IF <<t1, t2>> \in DOMAIN corr
    THEN corr[<<t1, t2>>]
    ELSE [shift |-> Neg(corr[<<t2, t1>>].shift),
          error |-> corr[<<t2, t1>>].error]

\* C2: register(t1, t2), t1 # t2, returns the (clamped) shift of t2 against
\* t1 in the queried order, on a miss and on a hit, whichever order was
\* registered first.
RegisterDirection ==
    (ret.status = "ok" /\ ret.t1 # ret.t2)
        => ret.shift = Clamp(Correlation(ret.t1, ret.t2)).shift

\* C3: register(a, b) returns one result only, however often and after
\* whatever other calls it is made; a repeated call reads no image; images
\* are read only when neither order of the pair has returned before.
RegisterOneResult ==
    \A p \in DOMAIN returned : Cardinality(returned[p]) <= 1

RegisterRepeatStep ==
    (ret'.status = "ok" /\ returned[<<ret'.t1, ret'.t2>>] # {})
        => /\ reads' = reads
           /\ Result(ret') \in returned[<<ret'.t1, ret'.t2>>]

RegisterReadStep ==
    (reads' # reads)
        => /\ returned[<<ret'.t1, ret'.t2>>] = {}
           /\ returned[<<ret'.t2, ret'.t1>>] = {}

\* C3: the three parts together, over every behaviour
CacheIdempotence ==
    /\ []RegisterOneResult
    /\ [][RegisterRepeatStep /\ RegisterReadStep]_vars

\* register(a, b), a > b, was called again after it had returned and after
\* other pairs were computed
CacheIdempotenceWitness ==
    /\ ret.status = "ok"
    /\ ret.repeat
    /\ ret.t1 > ret.t2
    /\ ret.shift # <<0, 0>>
    /\ Cardinality(DOMAIN cache) > 1

\* |shift| > 0.05 * size on some axis, shift in 1/UpsampleFactor pixel
Exceeds(shift) ==
    \E d \in Axes : 20 * Abs(shift[d]) > size[d] * UpsampleFactor

PairKey(t1, t2) == <<Min(t1, t2), Max(t1, t2)>>

\* C4 as stated: on a miss an estimate beyond the limit on some axis is
\* returned and cached as shift (0, 0), error 1; an estimate within the
\* limit on both axes is returned and cached unchanged; every returned shift
\* is within the limit.
ClampReturnsEstimate ==
    /\ (ret.status = "ok" /\ ret.miss) =>
          IF Exceeds(ret.est.shift)
          THEN /\ Result(ret) = [shift |-> <<0, 0>>, error |-> RejectedError]
               /\ cache[PairKey(ret.t1, ret.t2)] = Result(ret)
          ELSE /\ Result(ret) = ret.est
               /\ cache[PairKey(ret.t1, ret.t2)] = ret.est
    /\ (ret.status = "ok") => ~Exceeds(ret.shift)

\* C4 amended: as stated, except that an estimate within the limit is
\* returned negated when t1 > t2 (it is cached unchanged, and returned
\* unchanged when t1 <= t2).
ClampReturnsOrientedEstimate ==
    /\ (ret.status = "ok" /\ ret.miss) =>
          IF Exceeds(ret.est.shift)
          THEN /\ Result(ret) = [shift |-> <<0, 0>>, error |-> RejectedError]
               /\ cache[PairKey(ret.t1, ret.t2)] = Result(ret)
          ELSE /\ ret.error = ret.est.error
               /\ \A d \in Axes :
                     ret.shift[d] = IF ret.t1 > ret.t2
                                    THEN -ret.est.shift[d]
                                    ELSE ret.est.shift[d]
               /\ cache[PairKey(ret.t1, ret.t2)] = ret.est
    /\ (ret.status = "ok") => ~Exceeds(ret.shift)

\* a miss with t1 > t2 whose estimate is within the limit and not zero
ClampWitness ==
    /\ ret.status = "ok"
    /\ ret.miss
    /\ ret.t1 > ret.t2
    /\ ~Exceeds(ret.est.shift)
    /\ ret.est.shift # <<0, 0>>

\* the two tiles' rectangles share more than a boundary
Overlapping(a, b) ==
    \A d \in Axes : size[d] * Sub - Abs(positions[a][d] - positions[b][d]) > 0

\* C10: register on tiles that do not intersect fails with 'Tiles do not
\* intersect' in every state, leaving the cache, the read count and the
\* results as they were; every cached pair intersects and has a result.
FailedRegisterInv ==
    \A key \in DOMAIN cache :
        /\ Overlapping(key[1], key[2])
        /\ returned[key] \cup returned[<<key[2], key[1]>>] # {}

FailedRegisterStep ==
    /\ (ret'.status = "error")
          => /\ cache' = cache
             /\ reads' = reads
             /\ returned' = returned
             /\ ret'.error = "Tiles do not intersect"
             /\ ~Overlapping(ret'.t1, ret'.t2)
    /\ (ret'.status # "none" /\ ~Overlapping(ret'.t1, ret'.t2))
          => ret'.status = "error"

\* C10: the invariant and the step property together
FailedRegisterKeepsCache ==
    /\ []FailedRegisterInv
    /\ [][FailedRegisterStep]_vars

\* a registration failed while the cache held entries
FailedRegisterWitness ==
    /\ ret.status = "error"
    /\ Cardinality(DOMAIN cache) > 1

----------------------------------------------------------------------------
(* Claims about EdgeAligner.intersection, checked under SpecGeom *)

\* the overlap rectangle's extent on axis d, in 1/Sub pixel
Extent(a, b, d) == size[d] * Sub - Abs(positions[a][d] - positions[b][d])

\* the least whole number of pixels covering n / Sub
RoundUp(n) ==
    CHOOSE k \in (-Abs(n))..Abs(n) : k * Sub >= n /\ (k - 1) * Sub < n

\* C5: intersection succeeds exactly when the overlap rectangle's extent,
\* rounded up to whole pixels, is positive on both axes, then returning that
\* rounded extent as the shape; otherwise it fails with 'Tiles do not
\* intersect'.
IntersectionCorrect ==
    (isect.status = "called") =>
        /\ isect.res.ok <=>
              \A d \in Axes : RoundUp(Extent(isect.t1, isect.t2, d)) > 0
        /\ isect.res.ok =>
              \A d \in Axes :
                 isect.res.shape[d] = RoundUp(Extent(isect.t1, isect.t2, d))
        /\ ~isect.res.ok => isect.res.error = "Tiles do not intersect"

\* an intersection whose extent is not a whole number of pixels
IntersectionWitness ==
    /\ isect.status = "called"
    /\ isect.res.ok
    /\ \E d \in Axes : Extent(isect.t1, isect.t2, d) % Sub # 0

\* C8 as stated: a successful intersection has offsets >= 0 and shape > 0
\* on both axes.
OffsetsNonNegative ==
    (isect.status = "called" /\ isect.res.ok) =>
        \A d \in Axes :
            /\ isect.res.offset1[d] >= 0
            /\ isect.res.offset2[d] >= 0
            /\ isect.res.shape[d] > 0

\* C8 amended: a successful intersection has offsets <= 0 and shape > 0 on
\* both axes.
OffsetsNonPositive ==
    (isect.status = "called" /\ isect.res.ok) =>
        \A d \in Axes :
            /\ isect.res.offset1[d] <= 0
            /\ isect.res.offset2[d] <= 0
            /\ isect.res.shape[d] > 0

\* a successful intersection of tiles at different positions
OffsetsWitness ==
    /\ isect.status = "called"
    /\ isect.res.ok
    /\ \E d \in Axes : isect.res.offset1[d] < 0
    /\ \E d \in Axes : isect.res.offset2[d] < 0

----------------------------------------------------------------------------
(* Claims about Metadata.grid_dimensions, checked under SpecGrid *)

DistinctY == {positions[t][1] : t \in Tiles}
DistinctX == {positions[t][2] : t \in Tiles}

\* every cell of DistinctY x DistinctX holds exactly one tile
IsRectangularGrid ==
    \A y \in DistinctY, x \in DistinctX :
        Cardinality({t \in Tiles : positions[t] = <<y, x>>}) = 1

\* C6 as stated: grid_dimensions fails for every set of positions that is
\* not a rectangular grid, and returns (rows, columns) for every one that is.
GridValidation ==
    (grid.status = "called") =>
        /\ grid.res.ok <=> IsRectangularGrid
        /\ grid.res.ok =>
              grid.res.shape = <<Cardinality(DistinctY), Cardinality(DistinctX)>>

\* C6 amended: grid_dimensions fails exactly when the number of distinct Y
\* positions times the number of distinct X positions differs from the
\* number of tiles; it returns (rows, columns) for every rectangular grid.
GridProductValidation ==
    (grid.status = "called") =>
        /\ grid.res.ok <=>
              Cardinality(DistinctY) * Cardinality(DistinctX) = Cardinality(Tiles)
        /\ IsRectangularGrid => grid.res.ok
        /\ grid.res.ok =>
              grid.res.shape = <<Cardinality(DistinctY), Cardinality(DistinctX)>>
        /\ ~grid.res.ok =>
              grid.res.error = "Series positions do not form a grid"

\* grid_dimensions evaluated on a rectangular grid with more columns than rows
GridWitness ==
    /\ grid.status = "called"
    /\ grid.res.ok
    /\ IsRectangularGrid
    /\ Cardinality(DistinctY) < Cardinality(DistinctX)

----------------------------------------------------------------------------
(* Claims about paste, checked under SpecPaste and SpecPasteDebug *)

\* the rectangle of the canvas the image at pos covers
Covers(pos, p) ==
    /\ IntPart(pos[1]) <= p[1] /\ p[1] < IntPart(pos[1]) + ImgH
    /\ IntPart(pos[2]) <= p[2] /\ p[2] < IntPart(pos[2]) + ImgW

MaxOf(S) == CHOOSE m \in S : \A x \in S : x <= m

MaxBlendInv ==
    \A p \in Pixels :
        canvas[p] = MaxOf({0} \cup { Contribution(q[1], q[2], p) :
                                        q \in {r \in pasted : Covers(r[2], p)} })

MaxBlendStep ==
    /\ \A p \in Pixels :
          /\ canvas'[p] >= canvas[p]
          /\ ~Covers(last'.pos, p) => canvas'[p] = canvas[p]
    /\ <<last'.img, last'.pos>> \in pasted => canvas' = canvas

\* C7: with debug off every canvas pixel is the maximum of the converted
\* contributions of the pasted images covering it (0 if none), whatever the
\* order of the pastes; no paste lowers a pixel or changes one outside its
\* rectangle; pasting an image again at the same position changes nothing.
MaxIntensityBlend ==
    /\ []MaxBlendInv
    /\ [][MaxBlendStep]_vars

\* an image was pasted a second time, and some pixel is covered by two
\* pastes whose contributions differ and are not zero
MaxIntensityBlendWitness ==
    /\ last.status = "ok"
    /\ last.again
    /\ \E p \in Pixels, q1 \in pasted, q2 \in pasted :
          /\ Covers(q1[2], p) /\ Covers(q2[2], p)
          /\ 0 < Contribution(q1[1], q1[2], p)
          /\ Contribution(q1[1], q1[2], p) < Contribution(q2[1], q2[2], p)

OnBorder(reg, p) ==
    /\ InSlice(reg, p)
    /\ \/ p[1] \in {reg.y.at, reg.y.at + reg.y.len - 1}
       \/ p[2] \in {reg.x.at, reg.x.at + reg.x.len - 1}

\* C9: after a paste with debug on, every pixel on the border of the pasted
\* region holds min(v + 6000, MAX), v its value after the blend and MAX the
\* largest value of the canvas type. Stated for regions of at least two rows
\* and two columns, where the four outline segments do not coincide.
DebugBorderSaturates ==
    (/\ last.status = "ok" /\ last.debug
     /\ last.region.y.len >= 2 /\ last.region.x.len >= 2) =>
        \A p \in Pixels :
            OnBorder(last.region, p) =>
                canvas[p] = Min(last.blended[p] + DebugIncrement, CanvasMax)

====
